---- MODULE Spec2Model ----
(***************************************************************************)
(* Model of src/preprocess/common.py: the dependency checklist class Test  *)
(* (constructor, run_cmd, not_installed, check_dependencies) together with *)
(* the two aggregate exceptions it raises.                                 *)
(*                                                                         *)
(* A dict is modelled as a sequence of [key, cmd] records with distinct    *)
(* keys, in insertion order.  A command is a sequence of string tokens.    *)
(* The execution environment (which executables are on PATH and how they   *)
(* exit, which modules import) is a fixed table.                           *)
(***************************************************************************)
EXTENDS Integers, Sequences, FiniteSets, TLC

(* ------------------------------ bounds --------------------------------- *)

MaxCmdLen == 3

MaxModules == 2

(* -------------------------- environment -------------------------------- *)

PIPE == "|"

\* Executables present on PATH; "nvcc" is the one that is absent.
OnPath == {"true", "false"}

Tokens == {"true", "false", "nvcc", PIPE}

ExitCode(exe) == IF exe = "true" THEN 0 ELSE 1

Components == {"cuda", "cudnn"}

ComponentArgs == Components \cup {"deepstream"}

Modules == {"numpy", "nonexistent_mod_xyz", "broken_pkg", "bad_syntax"}

\* What importlib.import_module raises for each module name.
import_module(name) ==
    CASE name = "numpy" -> "None"
      [] name = "nonexistent_mod_xyz" -> "ModuleNotFoundError"
      [] name = "broken_pkg" -> "ImportError"
      [] OTHER -> "SyntaxError"

\* Variant: except ModuleNotFoundError.
ImportCaughtNotFoundOnly(exc) == exc = "ModuleNotFoundError"

\* except ImportError: ModuleNotFoundError is a subclass of ImportError.
ImportCaught(exc) == exc \in {"ImportError", "ModuleNotFoundError"}

\* Variant: except (FileNotFoundError, CalledProcessError).
ProbeCaughtAny(exc) == exc \in {"FileNotFoundError", "CalledProcessError"}

\* except FileNotFoundError
ProbeCaught(exc) == exc = "FileNotFoundError"

(* ------------------------------ inputs --------------------------------- *)

SeqsUpTo(S, n) == UNION {[1..k -> S] : k \in 0..n}

Commands == SeqsUpTo(Tokens, MaxCmdLen) \ {<<>>}

ShortCommands == {c \in Commands : Len(c) = 1}

Checklists(C) ==
    {d \in SeqsUpTo([key : Components, cmd : C], Cardinality(Components)) :
        \A a, b \in 1..Len(d) : d[a].key = d[b].key => a = b}

ModuleLists == SeqsUpTo(Modules, MaxModules)

(* --------------------------- dict helpers ------------------------------ *)

Keys(d) == [n \in 1..Len(d) |-> d[n].key]

HasKey(d, k) == \E n \in 1..Len(d) : d[n].key = k

GetItem(d, k) == d[CHOOSE n \in 1..Len(d) : d[n].key = k].cmd

\* d[k] = v on a dict: replace in place, or append a new key.
SetItem(d, k, v) ==
    IF HasKey(d, k)
    THEN [n \in 1..Len(d) |-> IF d[n].key = k THEN [key |-> k, cmd |-> v] ELSE d[n]]
    ELSE Append(d, [key |-> k, cmd |-> v])

\* del d[k]
DelItem(d, k) == SelectSeq(d, LAMBDA e : e.key # k)

\* MappingProxyType(d): a read-only view of d itself, not a copy.
MappingProxyType(d) == d

(* ----------------------------- strings --------------------------------- *)

RECURSIVE Join(_, _)
Join(sep, xs) ==
    IF Len(xs) = 0 THEN ""
    ELSE IF Len(xs) = 1 THEN xs[1]
    ELSE xs[1] \o sep \o Join(sep, Tail(xs))

UninstalledDependencyError(item, msg) == item \o " not installed ... " \o msg

MissingModuleError(item, msg) ==
    "python module(s) - '" \o item \o "' cannot be found ... " \o msg

Quoted(xs) == [n \in 1..Len(xs) |-> "'" \o xs[n] \o "'"]

DictKeysRepr(d) == "dict_keys([" \o Join(", ", Quoted(Keys(d))) \o "])"

KeyErrorMsg(component, d) ==
    "Invalid validation component: " \o component
        \o ". Available components to validate: " \o DictKeysRepr(d)

(* --------------------------- subprocess -------------------------------- *)

\* subprocess.Popen(argv): the exception creating the child raises, if any.
PopenExc(argv) ==
    IF Len(argv) = 0 THEN "IndexError"
    ELSE IF argv[1] \notin OnPath THEN "FileNotFoundError"
    ELSE "None"

Child(argv, waited) == [argv |-> argv, waited |-> waited]

has_pipe(cmds) == \E n \in 1..Len(cmds) : cmds[n] = PIPE

index_of_pipe(cmds) ==
    CHOOSE n \in 1..Len(cmds) :
        cmds[n] = PIPE /\ \A m \in 1..(n - 1) : cmds[m] # PIPE

\* subprocess.check_call / check_output on argv, with the children already
\* alive: the child is waited on inside the call, then its status is checked.
CheckedRun(argv, before) ==
    IF PopenExc(argv) # "None"
    THEN [exc |-> PopenExc(argv), children |-> before]
    ELSE IF ExitCode(argv[1]) # 0
    THEN [exc |-> "CalledProcessError", children |-> Append(before, Child(argv, TRUE))]
    ELSE [exc |-> "None", children |-> Append(before, Child(argv, TRUE))]

WaitAll(children) == [n \in 1..Len(children) |-> Child(children[n].argv, TRUE)]

\* process_before_pipe.wait() is reached only when check_output returned.
PipeFinish(r) ==
    IF r.exc = "None" THEN [exc |-> "None", children |-> WaitAll(r.children)] ELSE r

\* Variant: the piped branch also checks the exit status of the left stage.
run_cmd_checks_left(cmds) ==
    IF has_pipe(cmds)
    THEN LET left == SubSeq(cmds, 1, index_of_pipe(cmds) - 1)
             right == SubSeq(cmds, index_of_pipe(cmds) + 1, Len(cmds))
             r == PipeFinish(CheckedRun(right, <<Child(left, FALSE)>>))
         IN  IF PopenExc(left) # "None"
             THEN [exc |-> PopenExc(left), children |-> <<>>]
             ELSE IF r.exc = "None" /\ ExitCode(left[1]) # 0
             THEN [exc |-> "CalledProcessError", children |-> r.children]
             ELSE r
    ELSE CheckedRun(cmds, <<>>)

run_cmd(cmds) ==
    IF has_pipe(cmds)
    THEN LET left == SubSeq(cmds, 1, index_of_pipe(cmds) - 1)
             right == SubSeq(cmds, index_of_pipe(cmds) + 1, Len(cmds))
         IN  IF PopenExc(left) # "None"
             THEN [exc |-> PopenExc(left), children |-> <<>>]
             ELSE PipeFinish(CheckedRun(right, <<Child(left, FALSE)>>))
    ELSE CheckedRun(cmds, <<>>)

(* ------------------------------ Test ----------------------------------- *)

Outcome(exc, ret, msg, children) ==
    [exc |-> exc, ret |-> ret, msg |-> msg, children |-> children]

KnownComponent(todos, component) == HasKey(todos, component)

\* Variant: a component without an entry counts as not installed.
not_installed_lenient(todos, component) ==
    IF ~KnownComponent(todos, component)
    THEN Outcome("None", "True", "", <<>>)
    ELSE LET r == run_cmd(GetItem(todos, component))
         IN  IF r.exc = "None" THEN Outcome("None", "False", "", r.children)
             ELSE IF ProbeCaught(r.exc) THEN Outcome("None", "True", "", r.children)
             ELSE Outcome(r.exc, "-", "", r.children)

not_installed(todos, component) ==
    IF ~KnownComponent(todos, component)
    THEN Outcome("KeyError", "-", KeyErrorMsg(component, todos), <<>>)
    ELSE LET r == run_cmd(GetItem(todos, component))
         IN  IF r.exc = "None" THEN Outcome("None", "False", "", r.children)
             ELSE IF ProbeCaught(r.exc) THEN Outcome("None", "True", "", r.children)
             ELSE Outcome(r.exc, "-", "", r.children)

\* The for loop over self.python_modules, lines 105-111.
RECURSIVE ImportLoop(_, _, _, _)
ImportLoop(mods, j, items, done) ==
    IF j > Len(mods) THEN [exc |-> "None", items |-> items, imported |-> done]
    ELSE LET e == import_module(mods[j])
         IN  IF e = "None" THEN ImportLoop(mods, j + 1, items, Append(done, mods[j]))
             ELSE IF ImportCaught(e)
             THEN ImportLoop(mods, j + 1, Append(items, mods[j]), Append(done, mods[j]))
             ELSE [exc |-> e, items |-> items, imported |-> Append(done, mods[j])]

\* Variant: the module list is reported first.
ReportModulesFirst(items, python_items) ==
    IF Len(python_items) > 0
    THEN [exc |-> "MissingModuleError", ret |-> "-",
          msg |-> MissingModuleError(Join(", ", python_items), "")]
    ELSE IF Len(items) > 0
    THEN [exc |-> "UninstalledDependencyError", ret |-> "-",
          msg |-> UninstalledDependencyError(Join(", ", items), "")]
    ELSE [exc |-> "None", ret |-> "None", msg |-> ""]

\* Lines 113-117.
Report(items, python_items) ==
    IF Len(items) > 0
    THEN [exc |-> "UninstalledDependencyError", ret |-> "-",
          msg |-> UninstalledDependencyError(Join(", ", items), "")]
    ELSE IF Len(python_items) > 0
    THEN [exc |-> "MissingModuleError", ret |-> "-",
          msg |-> MissingModuleError(Join(", ", python_items), "")]
    ELSE [exc |-> "None", ret |-> "None", msg |-> ""]

\* The comprehension of lines 102-103 goes on unless the probe raised, keeps
\* the item when the probe returned True, and moves to the next item.
ScanContinues(r) == r.exc = "None"

\* Variant: the newest missing item goes to the front.
CollectReversed(items, item, r) == IF r.ret = "True" THEN <<item>> \o items ELSE items

Collect(items, item, r) == IF r.ret = "True" THEN Append(items, item) ELSE items

\* Variant: the scan stops at the first missing item.
NextIndexBreak(n, r, len) == IF r.ret = "True" THEN len + 1 ELSE n + 1

NextIndex(n, r, len) == n + 1

\* Variant: the constructor starts with a module to check.
InitialModulesPreset == <<"nonexistent_mod_xyz">>

\* self.python_modules = ()
InitialModules == <<>>

(* ------------------------------ state ---------------------------------- *)

VARIABLES
    ubuntu_commands,          \* the caller's dict handed to the constructor
    python_modules,           \* self.python_modules
    built,                    \* ghost: the checklist at construction time
    pc,                       \* "idle", or the position inside check_dependencies
    i,                        \* index of the next checklist item to probe
    uninstalled_items,
    uninstalled_python_items,
    probed,                   \* ghost: [key, ret] of every probe of this call
    imported,                 \* ghost: modules import-checked in this call
    children,                 \* child processes of the latest run_cmd
    result                    \* how the latest call ended

vars == <<ubuntu_commands, python_modules, built, pc, i, uninstalled_items,
          uninstalled_python_items, probed, imported, children, result>>

\* self.ubuntu_todos
ubuntu_todos == MappingProxyType(ubuntu_commands)

Result(op, arg, exc, ret, msg) ==
    [op |-> op, arg |-> arg, exc |-> exc, ret |-> ret, msg |-> msg]

NoResult == Result("none", "", "None", "-", "")

\* Test(d): the state right after construction.
Constructed(d) ==
    /\ ubuntu_commands = d
    /\ python_modules = InitialModules
    /\ built = d
    /\ pc = "idle"
    /\ i = 1
    /\ uninstalled_items = <<>>
    /\ uninstalled_python_items = <<>>
    /\ probed = <<>>
    /\ imported = <<>>
    /\ children = <<>>
    /\ result = NoResult

\* At most one command of the checklist has more than one token.
OneLong(d) == \A a, b \in 1..Len(d) : Len(d[a].cmd) > 1 /\ Len(d[b].cmd) > 1 => a = b

Init == \E d \in Checklists(Commands) : OneLong(d) /\ Constructed(d)

InitShort == \E d \in Checklists(ShortCommands) : Constructed(d)

(* ----------------------------- actions --------------------------------- *)

\* No check_dependencies frame is live: its locals and the logs are empty.
NoLocals ==
    /\ i' = 1
    /\ uninstalled_items' = <<>>
    /\ uninstalled_python_items' = <<>>
    /\ probed' = <<>>
    /\ imported' = <<>>

\* An operation of the caller that runs no probe.
CallerLocals == NoLocals /\ children' = <<>>

\* A caller calls t.not_installed(component).
NotInstalledCall ==
    /\ pc = "idle"
    /\ \E component \in ComponentArgs :
         LET r == not_installed(ubuntu_todos, component)
         IN  /\ result' = Result("not_installed", component, r.exc, r.ret, r.msg)
             /\ children' = r.children
    /\ NoLocals
    /\ UNCHANGED <<ubuntu_commands, python_modules, built, pc>>

\* A caller calls t.check_dependencies().
check_dependencies ==
    /\ pc = "idle"
    /\ pc' = "probing"
    /\ CallerLocals
    /\ result' = NoResult
    /\ UNCHANGED <<ubuntu_commands, python_modules, built>>

\* One iteration of the comprehension of lines 102-103.
CheckProbe ==
    /\ pc = "probing"
    /\ i <= Len(ubuntu_todos)
    /\ LET item == ubuntu_todos[i].key
           r == not_installed(ubuntu_todos, item)
       IN  /\ probed' = Append(probed, [key |-> item, ret |-> r.ret])
           /\ children' = r.children
           /\ IF ScanContinues(r)
              THEN /\ uninstalled_items' = Collect(uninstalled_items, item, r)
                   /\ i' = NextIndex(i, r, Len(ubuntu_todos))
                   /\ UNCHANGED <<pc, result>>
              ELSE /\ pc' = "idle"
                   /\ result' = Result("check_dependencies", "", r.exc, r.ret, r.msg)
                   /\ UNCHANGED <<i, uninstalled_items>>
    /\ UNCHANGED <<ubuntu_commands, python_modules, built,
                   uninstalled_python_items, imported>>

\* The import loop of lines 105-111.
CheckImports ==
    /\ pc = "probing"
    /\ i > Len(ubuntu_todos)
    /\ LET r == ImportLoop(python_modules, 1, <<>>, <<>>)
       IN  /\ imported' = r.imported
           /\ uninstalled_python_items' = r.items
           /\ IF r.exc = "None"
              THEN /\ pc' = "reporting"
                   /\ UNCHANGED result
              ELSE /\ pc' = "idle"
                   /\ result' = Result("check_dependencies", "", r.exc, "-", "")
    /\ UNCHANGED <<ubuntu_commands, python_modules, built, i, uninstalled_items,
                   probed, children>>

\* Lines 113-117, and the return.
CheckReport ==
    /\ pc = "reporting"
    /\ LET r == Report(uninstalled_items, uninstalled_python_items)
       IN  result' = Result("check_dependencies", "", r.exc, r.ret, r.msg)
    /\ pc' = "idle"
    /\ UNCHANGED <<ubuntu_commands, python_modules, built, i, uninstalled_items,
                   uninstalled_python_items, probed, imported, children>>

Next ==
    \/ NotInstalledCall
    \/ check_dependencies
    \/ CheckProbe
    \/ CheckImports
    \/ CheckReport

Spec == Init /\ [][Next]_vars

(* ------------------- a caller that sets the module list ---------------- *)

\* t.python_modules = ms
AssignPythonModules ==
    /\ pc = "idle"
    /\ \E ms \in ModuleLists : python_modules' = ms
    /\ result' = Result("python_modules.__set__", "", "None", "None", "")
    /\ CallerLocals
    /\ UNCHANGED <<ubuntu_commands, built, pc>>

NextModules == Next \/ AssignPythonModules

SpecModules == InitShort /\ [][NextModules]_vars

(* ------------------- a caller that mutates the mapping ----------------- *)

\* d[k] = v on the dict that was handed to the constructor.
CallerSetItem ==
    /\ pc = "idle"
    /\ \E k \in Components, v \in ShortCommands :
         /\ SetItem(ubuntu_commands, k, v) # ubuntu_commands
         /\ ubuntu_commands' = SetItem(ubuntu_commands, k, v)
         /\ result' = Result("ubuntu_commands.__setitem__", k, "None", "None", "")
    /\ CallerLocals
    /\ UNCHANGED <<python_modules, built, pc>>

\* del d[k] on the dict that was handed to the constructor.
CallerDelItem ==
    /\ pc = "idle"
    /\ \E k \in Components :
         /\ HasKey(ubuntu_commands, k)
         /\ ubuntu_commands' = DelItem(ubuntu_commands, k)
         /\ result' = Result("ubuntu_commands.__delitem__", k, "None", "None", "")
    /\ CallerLocals
    /\ UNCHANGED <<python_modules, built, pc>>

\* t.ubuntu_todos[k] = v or del t.ubuntu_todos[k]: mappingproxy has neither
\* item assignment nor item deletion.
ProxyMutate ==
    /\ pc = "idle"
    /\ \E k \in Components, op \in {"ubuntu_todos.__setitem__", "ubuntu_todos.__delitem__"} :
         result' = Result(op, k, "TypeError", "-", "")
    /\ CallerLocals
    /\ UNCHANGED <<ubuntu_commands, python_modules, built, pc>>

NextMutation == Next \/ CallerSetItem \/ CallerDelItem \/ ProxyMutate

SpecMutation == InitShort /\ [][NextMutation]_vars

(* ------------------------------ claims --------------------------------- *)

\* A check_dependencies call has ended (returned or raised).
CheckFinished == pc = "idle" /\ result.op = "check_dependencies"

\* A not_installed call on a component of the checklist has ended.
ProbeFinished == result.op = "not_installed" /\ HasKey(ubuntu_todos, result.arg)

ProbedCmd == GetItem(ubuntu_todos, result.arg)

SomeProbeTrue == \E n \in 1..Len(probed) : probed[n].ret = "True"

ProbeRaised == \E n \in 1..Len(probed) : probed[n].ret = "-"

ReturnedTrue == Keys(SelectSeq(probed, LAMBDA e : e.ret = "True"))

ImportErrorFamily == {"ImportError", "ModuleNotFoundError"}

ModuleFailed(m) == import_module(m) \in ImportErrorFamily

\* The probes and the import loop all ran, none raising out of the call.
ScanCompleted ==
    /\ ~ProbeRaised
    /\ Len(probed) = Len(ubuntu_todos)
    /\ imported = python_modules
    /\ \A n \in 1..Len(imported) :
         import_module(imported[n]) \in ImportErrorFamily \cup {"None"}

\* The text "a, b, c", built from the right.
RECURSIVE CommaList(_)
CommaList(xs) ==
    IF Len(xs) = 0 THEN ""
    ELSE IF Len(xs) = 1 THEN xs[1]
    ELSE CommaList(SubSeq(xs, 1, Len(xs) - 1)) \o ", " \o xs[Len(xs)]

\* A command whose segments each name an executable.
WellFormed(cmd) ==
    has_pipe(cmd) => (cmd[1] # PIPE /\ index_of_pipe(cmd) < Len(cmd))

AllWellFormed(d) == \A n \in 1..Len(d) : WellFormed(d[n].cmd)

AggregateErrors == {"UninstalledDependencyError", "MissingModuleError"}

C2_AsStated ==
    (CheckFinished /\ AllWellFormed(ubuntu_todos)) =>
        /\ SomeProbeTrue => result.exc = "UninstalledDependencyError"
        /\ result.exc = "MissingModuleError" =>
               ~SomeProbeTrue /\ \E n \in 1..Len(imported) : ModuleFailed(imported[n])
        /\ (ScanCompleted /\ uninstalled_items = <<>> /\ uninstalled_python_items = <<>>) =>
               (result.exc = "None" /\ result.ret = "None")

\* C2 amended: a call never ends with MissingModuleError once a probe
\* reported not-installed; it ends with UninstalledDependencyError when the
\* scan also ran to its end; MissingModuleError only when no probe reported
\* not-installed and a module failed; a completed scan with nothing missing
\* returns None.
C2_SystemProbesReportedFirst ==
    CheckFinished =>
        /\ SomeProbeTrue => result.exc # "MissingModuleError"
        /\ (SomeProbeTrue /\ ScanCompleted) => result.exc = "UninstalledDependencyError"
        /\ result.exc = "MissingModuleError" =>
               ~SomeProbeTrue /\ \E n \in 1..Len(imported) : ModuleFailed(imported[n])
        /\ (ScanCompleted /\ ~SomeProbeTrue
                /\ \A n \in 1..Len(imported) : ~ModuleFailed(imported[n])) =>
               (result.exc = "None" /\ result.ret = "None")

C2_Witness ==
    /\ CheckFinished
    /\ SomeProbeTrue
    /\ \E n \in 1..Len(imported) : ModuleFailed(imported[n])
    /\ result.exc = "UninstalledDependencyError"

C4_ProbesSeeBuiltChecklist ==
    (result.op = "not_installed" /\ AllWellFormed(ubuntu_todos) /\ AllWellFormed(built)) =>
        LET r == not_installed(built, result.arg)
        IN  /\ result.exc = r.exc
            /\ result.ret = r.ret
            /\ children = r.children

\* C5: after any probe of a command whose segments each name an executable,
\* every child process the probe spawned has been waited on, also when the
\* second stage of a pipe raised.
C5_AllChildrenWaited ==
    AllWellFormed(ubuntu_todos) => \A n \in 1..Len(children) : children[n].waited

\* C6 as stated: for a pipe-form command, not_installed returns True when the
\* left executable is missing, and False whenever both executables exist,
\* whatever their exit status.
C6_AsStated ==
    (ProbeFinished /\ has_pipe(ProbedCmd) /\ ProbedCmd[1] # PIPE) =>
        LET right == SubSeq(ProbedCmd, index_of_pipe(ProbedCmd) + 1, Len(ProbedCmd))
        IN  /\ ProbedCmd[1] \notin OnPath =>
                   (result.exc = "None" /\ result.ret = "True")
            /\ (ProbedCmd[1] \in OnPath /\ Len(right) > 0 /\ right[1] \in OnPath) =>
                   (result.exc = "None" /\ result.ret = "False")

\* C6 amended: for a pipe-form command, not_installed returns True when the
\* left executable is missing; when both executables exist it returns False
\* if the right stage exits zero (whatever the left stage's status) and
\* raises CalledProcessError if the right stage exits non-zero.
C6_PipeProbe ==
    (ProbeFinished /\ has_pipe(ProbedCmd) /\ ProbedCmd[1] # PIPE) =>
        LET right == SubSeq(ProbedCmd, index_of_pipe(ProbedCmd) + 1, Len(ProbedCmd))
            BothExist == ProbedCmd[1] \in OnPath /\ Len(right) > 0 /\ right[1] \in OnPath
        IN  /\ ProbedCmd[1] \notin OnPath =>
                   (result.exc = "None" /\ result.ret = "True")
            /\ (BothExist /\ ExitCode(right[1]) = 0) =>
                   (result.exc = "None" /\ result.ret = "False")
            /\ (BothExist /\ ExitCode(right[1]) # 0) =>
                   (result.exc = "CalledProcessError" /\ result.ret = "-")

C6_Witness ==
    /\ ProbeFinished
    /\ ProbedCmd = <<"false", PIPE, "true">>
    /\ result.ret = "False"

\* A command without a pipe whose executable exists and exits non-zero.
FailingPlain(cmd) == ~has_pipe(cmd) /\ cmd[1] \in OnPath /\ ExitCode(cmd[1]) # 0

\* C7: a non-piped probe whose executable exists but exits non-zero raises
\* CalledProcessError out of not_installed and out of check_dependencies: the
\* component is not listed, no aggregate error is raised, and no component
\* after it is probed.
C7_ProcessErrorPropagates ==
    /\ (ProbeFinished /\ FailingPlain(ProbedCmd)) =>
           (result.exc = "CalledProcessError" /\ result.ret = "-")
    /\ \A n \in 1..Len(probed) :
           FailingPlain(GetItem(ubuntu_todos, probed[n].key)) =>
               /\ n = Len(probed)
               /\ probed[n].ret = "-"
               /\ CheckFinished
               /\ result.exc = "CalledProcessError"
               /\ \A m \in 1..Len(uninstalled_items) : uninstalled_items[m] # probed[n].key
               /\ Keys(probed) = SubSeq(Keys(ubuntu_todos), 1, n)

C7_Witness ==
    /\ CheckFinished
    /\ Len(ubuntu_todos) = 2
    /\ Len(probed) = 1
    /\ FailingPlain(ubuntu_todos[1].cmd)
    /\ result.exc = "CalledProcessError"

\* C8: not_installed on a name that is no key of the checklist raises
\* KeyError, returns nothing, lists the valid keys in the message and spawns
\* no child process.
C8_UnknownComponent ==
    (result.op = "not_installed" /\ ~HasKey(ubuntu_todos, result.arg)) =>
        /\ result.exc = "KeyError"
        /\ result.ret = "-"
        /\ children = <<>>
        /\ result.msg = "Invalid validation component: " \o result.arg
               \o ". Available components to validate: dict_keys(["
               \o CommaList([n \in 1..Len(ubuntu_todos) |->
                                "'" \o ubuntu_todos[n].key \o "'"])
               \o "])"

C8_Witness ==
    /\ result.op = "not_installed"
    /\ result.arg = "cudnn"
    /\ Keys(ubuntu_todos) = <<"cuda">>
    /\ result.exc = "KeyError"

\* C9 as stated: only a module-not-found failure is collected; any other
\* import-time error propagates; MissingModuleError names exactly the modules
\* that fail to resolve.
C9_AsStated ==
    CheckFinished =>
        /\ \A n \in 1..Len(imported) :
               import_module(imported[n]) \notin {"None", "ModuleNotFoundError"} =>
                   result.exc = import_module(imported[n])
        /\ result.exc = "MissingModuleError" =>
               result.msg = "python module(s) - '"
                   \o CommaList(SelectSeq(python_modules,
                          LAMBDA m : import_module(m) = "ModuleNotFoundError"))
                   \o "' cannot be found ... "

\* C9 amended: a module is collected exactly when its import raises
\* ImportError or a subclass of it (module-not-found included); any other
\* import-time error ends the call at that module and propagates;
\* MissingModuleError names exactly the collected modules in list order.
C9_ImportErrorsCollected ==
    CheckFinished =>
        /\ \A n \in 1..Len(imported) :
               import_module(imported[n]) \notin ImportErrorFamily \cup {"None"} =>
                   (n = Len(imported) /\ result.exc = import_module(imported[n]))
        /\ uninstalled_python_items = SelectSeq(imported, ModuleFailed)
        /\ result.exc = "MissingModuleError" =>
               result.msg = "python module(s) - '"
                   \o CommaList(SelectSeq(python_modules, ModuleFailed))
                   \o "' cannot be found ... "

C9_Witness ==
    /\ CheckFinished
    /\ result.exc = "MissingModuleError"
    /\ python_modules = <<"broken_pkg", "nonexistent_mod_xyz">>

\* C10: an object used only through its constructor, not_installed and
\* check_dependencies has an empty module list: no module is import-checked,
\* MissingModuleError is never raised, and every check_dependencies call
\* ends in a return, UninstalledDependencyError or an error of a probe's
\* process call.
C10_NoModuleChecked ==
    /\ python_modules = <<>>
    /\ imported = <<>>
    /\ uninstalled_python_items = <<>>
    /\ result.exc # "MissingModuleError"
    /\ CheckFinished =>
           result.exc \in {"None", "UninstalledDependencyError",
                           "CalledProcessError", "IndexError"}

C10_Witness ==
    /\ CheckFinished
    /\ Len(probed) = 2
    /\ result.exc = "None"
    /\ result.ret = "None"
====
